---- MODULE Spec2Model ----
(***************************************************************************)
(* Model of winter/web/throttling.py: the sliding-window-log throttle      *)
(* (BaseRateThrottle) over a shared TTL cache, and its identity resolver.  *)
(*                                                                         *)
(* Python strings are sequences of one-character strings.  Time is an      *)
(* integer number of clock ticks; a duration is counted in the same ticks. *)
(***************************************************************************)
EXTENDS Integers, Sequences, FiniteSets, TLC

\* ------------------------------------------------------------------ bounds
MaxN == 2          \* largest limitCount of the small rate configurations
MaxW == 2          \* largest window (ticks) of the small rate configurations
MaxTime == 3       \* the small clock runs over the instants 0 .. MaxTime
MaxCalls == 7      \* allow_request calls per run of the atomic specification
MaxRaceCalls == 4  \* allow_request calls per run of the interleaved one
MaxKeyCalls == 4   \* allow_request calls per run of the two-scope one
MaxLen == 3        \* longest enumerated forwarded-for header value
MaxRateLen == 4    \* longest enumerated rate string
MaxSharedCalls == 4  \* allow_request calls per run of the shared-scope one
MaxFailCalls == 3  \* allow_request calls per run of the failing-cache one
MaxZeroCalls == 3  \* allow_request calls per run of the zero-rate one

\* ------------------------------------------------------- Python values
\* None: a one-element tuple that is no string (strings hold single chars).
None == <<"None">>

Workers == {"w1", "w2"}

\* ------------------------------------------------------ identity resolver
Whitespace == {" ", "\t"}

DigitChars == <<"0", "1", "2", "3", "4", "5", "6", "7", "8", "9">>

RECURSIVE Digits(_)
Digits(n) ==
  IF n < 10 THEN <<DigitChars[n + 1]>>
  ELSE Digits(n \div 10) \o <<DigitChars[(n % 10) + 1]>>

\* str(user_pk) for a non-negative integer primary key
str(pk) == Digits(pk)

\* str.split() with no argument: the maximal runs of non-whitespace characters
RECURSIVE SplitFrom(_, _, _)
SplitFrom(s, word, words) ==
  IF s = <<>> THEN (IF word = <<>> THEN words ELSE Append(words, word))
  ELSE IF Head(s) \in Whitespace
       THEN SplitFrom(Tail(s), <<>>, IF word = <<>> THEN words ELSE Append(words, word))
       ELSE SplitFrom(Tail(s), Append(word, Head(s)), words)

split(s) == SplitFrom(s, <<>>, <<>>)

\* ''.join(words)
RECURSIVE join(_)
join(words) == IF words = <<>> THEN <<>> ELSE Head(words) \o join(Tail(words))

\* truthiness of an optional string: None and '' are falsy
Truthy(s) == s # None /\ s # <<>>

\* variant: the header is returned as received
get_ident_from_meta_raw(request) ==
  IF Truthy(request.xff) THEN request.xff ELSE request.remote_addr

get_ident_from_meta(request) ==
  LET xff == request.xff
      remote_addr == request.remote_addr
  IN IF Truthy(xff) THEN join(split(xff)) ELSE remote_addr

get_ident(request) ==
  IF request.user.is_authenticated /\ request.user.has_pk
  THEN str(request.user.pk)
  ELSE get_ident_from_meta(request)

\* ------------------------------------------------------------ cache keys
\* cache_format = 'throttle_{scope}_{ident}'; format() renders None as 'None'
Render(x) == IF x = None THEN <<"N", "o", "n", "e">> ELSE x

_get_cache_key(scope, ident) ==
  <<"t", "h", "r", "o", "t", "t", "l", "e", "_">> \o Render(scope) \o <<"_">> \o Render(ident)

\* ------------------------------------------------------------ the cache
\* cache.get(key, []): the stored value unless the key is missing or expired;
\* a key written at time t with timeout d is gone from time t + d on
CacheHas(c, k, t) == k \in DOMAIN c /\ t < c[k].expires

CacheGet(c, k, t) == IF CacheHas(c, k, t) THEN c[k].value ELSE <<>>

\* cache.set(key, value, timeout) at time t
CacheSet(c, k, v, timeout, t) ==
  [x \in (DOMAIN c) \cup {k} |->
     IF x = k THEN [value |-> v, expires |-> t + timeout] ELSE c[x]]

\* ------------------------------------------------------- throttle engine
Throttling(n, d, s) == [is_none |-> FALSE, num_requests |-> n, duration |-> d, scope |-> s]

NoThrottling == [is_none |-> TRUE, num_requests |-> 0, duration |-> 0, scope |-> <<>>]

\* variant: the boundary timestamp t = now - duration is still in the window
Expired_strict(t, now, duration) == t < now - duration

\* variant: a timestamp leaves the window one tick early
Expired_early(t, now, duration) == t <= now - duration + 1

\* history[-1] <= now - duration
Expired(t, now, duration) == t <= now - duration

\* variant: the loop is missing
Prune_none(history, now, duration) == history

\* variant: an expired tail clears the history instead of being popped
Prune_clear(history, now, duration) ==
  IF history # <<>> /\ Expired(history[Len(history)], now, duration)
  THEN <<>>
  ELSE history

\* while history and history[-1] <= now - duration: history.pop()
RECURSIVE Prune(_, _, _)
Prune(history, now, duration) ==
  IF history # <<>> /\ Expired(history[Len(history)], now, duration)
  THEN Prune(SubSeq(history, 1, Len(history) - 1), now, duration)
  ELSE history

\* variant: > for >=
OverLimit_gt(history, num_requests) == Len(history) > num_requests

\* len(history) >= num_requests
OverLimit(history, num_requests) == Len(history) >= num_requests

\* ------------------------------------------------------------ rate parser
\* the outcome of a call: a returned (num_requests, duration) or an exception
Return(n, d) == [error |-> "", num_requests |-> n, duration |-> d]

Raise(e) == [error |-> e, num_requests |-> 0, duration |-> 0]

\* rate.split('/'): the pieces between the slashes, always at least one
RECURSIVE SplitSlash(_, _, _)
SplitSlash(s, piece, pieces) ==
  IF s = <<>> THEN Append(pieces, piece)
  ELSE IF Head(s) = "/"
       THEN SplitSlash(Tail(s), <<>>, Append(pieces, piece))
       ELSE SplitSlash(Tail(s), Append(piece, Head(s)), pieces)

RECURSIVE LStrip(_)
LStrip(s) == IF s # <<>> /\ Head(s) \in Whitespace THEN LStrip(Tail(s)) ELSE s

RECURSIVE RStrip(_)
RStrip(s) ==
  IF s # <<>> /\ s[Len(s)] \in Whitespace THEN RStrip(SubSeq(s, 1, Len(s) - 1)) ELSE s

IsDigit(c) == \E d \in 0 .. 9 : DigitChars[d + 1] = c

DigitOf(c) == CHOOSE d \in 0 .. 9 : DigitChars[d + 1] = c

\* the digits of an int() literal: digits, single underscores between digits
IsIntBody(s) ==
  /\ s # <<>>
  /\ \A x \in 1 .. Len(s) :
       \/ IsDigit(s[x])
       \/ s[x] = "_" /\ x > 1 /\ x < Len(s) /\ IsDigit(s[x - 1]) /\ IsDigit(s[x + 1])

RECURSIVE IntBodyValue(_, _)
IntBodyValue(s, acc) ==
  IF s = <<>> THEN acc
  ELSE IF Head(s) = "_" THEN IntBodyValue(Tail(s), acc)
  ELSE IntBodyValue(Tail(s), 10 * acc + DigitOf(Head(s)))

\* int(num): surrounding whitespace stripped, an optional sign, the digits;
\* <<value>> or, for ValueError, <<>>
PyInt(num) ==
  LET t == RStrip(LStrip(num))
      signed == t # <<>> /\ Head(t) \in {"+", "-"}
      body == IF signed THEN Tail(t) ELSE t
  IN IF ~IsIntBody(body) THEN <<>>
     ELSE IF signed /\ Head(t) = "-" THEN <<0 - IntBodyValue(body, 0)>>
     ELSE <<IntBodyValue(body, 0)>>

\* {'s': 1, 'm': 60, 'h': 3600, 'd': 86400}
Periods == [c \in {"s", "m", "h", "d"} |->
              IF c = "s" THEN 1 ELSE IF c = "m" THEN 60 ELSE IF c = "h" THEN 3600 ELSE 86400]

_parse_rate(r) ==
  LET pieces == SplitSlash(r, <<>>, <<>>)
  IN IF Len(pieces) # 2 THEN Raise("ValueError")
     ELSE IF PyInt(pieces[1]) = <<>> THEN Raise("ValueError")
     ELSE IF pieces[2] = <<>> THEN Raise("IndexError")
     ELSE IF pieces[2][1] \notin DOMAIN Periods THEN Raise("KeyError")
     ELSE Return(PyInt(pieces[1])[1], Periods[pieces[2][1]])

\* ------------------------------------------------------- config binder
ThrottlingAnnotation(r, scope) == [rate |-> r, scope |-> scope]

\* variant: the declared scope is ignored, every handler gets its own bucket
create_throttle_class_own_scope(annotation, full_name) ==
  IF annotation.rate = None THEN NoThrottling
  ELSE LET p == _parse_rate(annotation.rate)
       IN IF p.error # "" THEN Raise(p.error)
          ELSE Throttling(p.num_requests, p.duration, full_name)

\* the throttling_ of the engine built for a route: None without a rate, the
\* exception of _parse_rate when it raises, else (num_requests, duration,
\* annotation.scope or full_name)
create_throttle_class(annotation, full_name) ==
  IF annotation.rate = None THEN NoThrottling
  ELSE LET p == _parse_rate(annotation.rate)
       IN IF p.error # "" THEN Raise(p.error)
          ELSE Throttling(p.num_requests, p.duration,
                          IF Truthy(annotation.scope) THEN annotation.scope ELSE full_name)

\* ------------------------------------------------------------------ state
VARIABLES
  clock,     \* time.time(): the instant the next clock read returns
  cache,     \* the shared cache: key -> [value, expires]
  engine,    \* handler -> the throttling_ of its BaseRateThrottle
  frame,     \* worker -> the local variables of its running allow_request
  log,       \* the completed allow_request calls, in order of completion
  meta,      \* identity resolver: the request being resolved
  resolved,  \* identity resolver: <<>> before, <<ident>> after get_ident
  rate,      \* rate parser: the rate string being parsed
  parsed     \* rate parser: <<>> before, <<outcome>> after _parse_rate

vars == <<clock, cache, engine, frame, log, meta, resolved, rate, parsed>>

EmptyCache == [k \in {} |-> 0]

IdleFrame ==
  [pc |-> "idle", h |-> "", ident |-> <<>>, key |-> <<>>, read |-> <<>>,
   absent |-> FALSE, history |-> <<>>, now |-> 0, gets |-> 0, sets |-> 0]

User(auth, has_pk, pk) == [is_authenticated |-> auth, has_pk |-> has_pk, pk |-> pk]

AnonymousUser == User(FALSE, FALSE, 0)

Request(user, xff, remote_addr) == [user |-> user, xff |-> xff, remote_addr |-> remote_addr]

\* ------------------------------------------------- allow_request, by parts
\* lines 42-45: ident, key and the history read from the cache at time t
Begin(h, request, c, t) ==
  LET ident == get_ident(request)
      key == _get_cache_key(engine[h].scope, ident)
  IN [pc |-> "time", h |-> h, ident |-> ident, key |-> key,
      read |-> CacheGet(c, key, t), absent |-> ~CacheHas(c, key, t),
      history |-> CacheGet(c, key, t), now |-> 0, gets |-> 1, sets |-> 0]

\* variant: history.append(now) for history.insert(0, now)
Decide_append(fr, t) ==
  LET pruned == Prune(fr.history, t, engine[fr.h].duration)
  IN IF OverLimit(pruned, engine[fr.h].num_requests)
     THEN [fr EXCEPT !.pc = "reject", !.now = t, !.history = pruned]
     ELSE [fr EXCEPT !.pc = "set", !.now = t, !.history = pruned \o <<t>>]

\* variant: the limit is tested on the history as read, before the pruning
Decide_unpruned(fr, t) ==
  LET pruned == Prune(fr.history, t, engine[fr.h].duration)
  IN IF OverLimit(fr.history, engine[fr.h].num_requests)
     THEN [fr EXCEPT !.pc = "reject", !.now = t, !.history = pruned]
     ELSE [fr EXCEPT !.pc = "set", !.now = t, !.history = <<t>> \o pruned]

\* lines 46-54: read the clock, prune, decide, and prepend now when admitted
Decide(fr, t) ==
  LET pruned == Prune(fr.history, t, engine[fr.h].duration)
  IN IF OverLimit(pruned, engine[fr.h].num_requests)
     THEN [fr EXCEPT !.pc = "reject", !.now = t, !.history = pruned]
     ELSE [fr EXCEPT !.pc = "set", !.now = t, !.history = <<t>> \o pruned]

\* variant: the key is dropped one tick before the window ends
Store_short_ttl(c, fr, t) ==
  CacheSet(c, fr.key, fr.history, engine[fr.h].duration - 1, t)

\* variant: the key is kept for two windows
Store_double_ttl(c, fr, t) ==
  CacheSet(c, fr.key, fr.history, 2 * engine[fr.h].duration, t)

\* variant: num_requests passed as the timeout
Store_limit_as_ttl(c, fr, t) ==
  CacheSet(c, fr.key, fr.history, engine[fr.h].num_requests, t)

\* line 55: cache.set(key, history, duration) at time t
Store(c, fr, t) == CacheSet(c, fr.key, fr.history, engine[fr.h].duration, t)

Stored(fr) == [fr EXCEPT !.sets = fr.sets + 1]

\* a completed call as its caller and the cache saw it: the return value,
\* the local variables at the return, and the cache operations it performed
Returned(fr, allowed) ==
  [h |-> fr.h, throttled |-> TRUE, scope |-> engine[fr.h].scope, ident |-> fr.ident,
   key |-> fr.key, read |-> fr.read, absent |-> fr.absent, now |-> fr.now,
   history |-> fr.history, allowed |-> allowed, gets |-> fr.gets, sets |-> fr.sets,
   failed |-> "", raised |-> ""]

\* variant: an engine without configuration turns the call away
ReturnedUnthrottled_false(h) ==
  [h |-> h, throttled |-> FALSE, scope |-> <<>>, ident |-> <<>>,
   key |-> <<>>, read |-> <<>>, absent |-> FALSE, now |-> 0,
   history |-> <<>>, allowed |-> FALSE, gets |-> 0, sets |-> 0,
   failed |-> "", raised |-> ""]

\* lines 39-40: return True before any local is bound
ReturnedUnthrottled(h) ==
  [h |-> h, throttled |-> FALSE, scope |-> <<>>, ident |-> <<>>,
   key |-> <<>>, read |-> <<>>, absent |-> FALSE, now |-> 0,
   history |-> <<>>, allowed |-> TRUE, gets |-> 0, sets |-> 0,
   failed |-> "", raised |-> ""]

\* ------------------------------------------- actions: one step per cache op
\* lines 38-45, up to and including cache.get
Get(w, h, request) ==
  /\ frame[w].pc = "idle"
  /\ IF engine[h].is_none
     THEN /\ log' = Append(log, ReturnedUnthrottled(h))
          /\ frame' = frame
     ELSE /\ frame' = [frame EXCEPT ![w] = Begin(h, request, cache, clock)]
          /\ log' = log
  /\ UNCHANGED <<clock, cache, engine, meta, resolved, rate, parsed>>

\* lines 46-54: time.time(), the pruning loop and the decision
Now(w) ==
  /\ frame[w].pc = "time"
  /\ LET fr == Decide(frame[w], clock)
     IN IF fr.pc = "reject"
        THEN /\ log' = Append(log, Returned(fr, FALSE))
             /\ frame' = [frame EXCEPT ![w] = IdleFrame]
        ELSE /\ frame' = [frame EXCEPT ![w] = fr]
             /\ log' = log
  /\ UNCHANGED <<clock, cache, engine, meta, resolved, rate, parsed>>

\* lines 55-56: cache.set and return True
Set(w) ==
  /\ frame[w].pc = "set"
  /\ cache' = Store(cache, frame[w], clock)
  /\ log' = Append(log, Returned(Stored(frame[w]), TRUE))
  /\ frame' = [frame EXCEPT ![w] = IdleFrame]
  /\ UNCHANGED <<clock, engine, meta, resolved, rate, parsed>>

\* the clock moves on to a later instant of T
Tick(T) ==
  /\ \E t \in T : t > clock /\ clock' = t
  /\ UNCHANGED <<cache, engine, frame, log, meta, resolved, rate, parsed>>

\* -------------------------------------- actions: a cache operation fails
\* variant: the exception is swallowed and the call lets the request through
StoreError_fail_open(fr, op) == [Returned(fr, TRUE) EXCEPT !.failed = op]

\* lines 45 and 55 stand in no try block: the exception of the cache leaves
\* allow_request at once, nothing is returned
StoreError(fr, op) ==
  [Returned(fr, FALSE) EXCEPT !.failed = op, !.raised = "StoreUnavailable"]

\* line 45: cache.get raises
GetFails(w, h, request) ==
  /\ frame[w].pc = "idle"
  /\ ~engine[h].is_none
  /\ log' = Append(log, StoreError(Begin(h, request, EmptyCache, clock), "get"))
  /\ UNCHANGED <<clock, cache, engine, frame, meta, resolved, rate, parsed>>

\* line 55: cache.set raises; the store may or may not have taken the write
SetFails(w) ==
  /\ frame[w].pc = "set"
  /\ cache' \in {cache, Store(cache, frame[w], clock)}
  /\ log' = Append(log, StoreError(Stored(frame[w]), "set"))
  /\ frame' = [frame EXCEPT ![w] = IdleFrame]
  /\ UNCHANGED <<clock, engine, meta, resolved, rate, parsed>>

\* ------------------------ action: a whole call serialized by the store
AllowRequest(w, h, request) ==
  /\ frame[w].pc = "idle"
  /\ IF engine[h].is_none
     THEN /\ log' = Append(log, ReturnedUnthrottled(h))
          /\ cache' = cache
     ELSE LET fr == Decide(Begin(h, request, cache, clock), clock)
          IN IF fr.pc = "reject"
             THEN /\ log' = Append(log, Returned(fr, FALSE))
                  /\ cache' = cache
             ELSE /\ log' = Append(log, Returned(Stored(fr), TRUE))
                  /\ cache' = Store(cache, fr, clock)
  /\ UNCHANGED <<clock, engine, frame, meta, resolved, rate, parsed>>

\* ------------------------------------------------------- specifications
ScopeA == <<"a">>

ReqC == Request(AnonymousUser, None, <<"c">>)

\* the scenario of the test controller: '5/s' with a tick of 0.01 s
ScenarioRate == Throttling(5, 100, ScopeA)

ScenarioInstants == {0, 1, 2, 3, 4, 5, 101}

SmallRates == {Throttling(n, d, ScopeA) : n \in 0 .. MaxN, d \in 1 .. MaxW}

NoMeta == Request(AnonymousUser, None, None)

InitCommon ==
  /\ clock = 0
  /\ cache = EmptyCache
  /\ frame = [w \in Workers |-> IdleFrame]
  /\ log = <<>>
  /\ meta = NoMeta
  /\ resolved = <<>>
  /\ rate = <<>>
  /\ parsed = <<>>

\* SpecAtomic: one rate configuration, every call one atomic step
AtomicInstants == (0 .. MaxTime) \cup ScenarioInstants

InitAtomic ==
  /\ InitCommon
  /\ engine \in {[h \in {"h1"} |-> r] : r \in SmallRates \cup {ScenarioRate}}

CallAtomic ==
  /\ Len(log) < MaxCalls
  /\ \E w \in Workers : AllowRequest(w, "h1", ReqC)

TickAtomic == Tick(AtomicInstants)

NextAtomic == CallAtomic \/ TickAtomic

SpecAtomic == InitAtomic /\ [][NextAtomic]_vars

\* Spec: two workers, cache.get, time.time() and cache.set as separate steps;
\* handler h1 is throttled, handler h2 declares no throttling
Instants == 0 .. MaxTime

InitRace ==
  /\ InitCommon
  /\ engine \in {[h \in {"h1", "h2"} |-> IF h = "h1" THEN r ELSE NoThrottling] :
                   r \in SmallRates}

Running == {w \in Workers : frame[w].pc # "idle"}

CallGet ==
  /\ Len(log) + Cardinality(Running) < MaxRaceCalls
  /\ \E w \in Workers, h \in {"h1", "h2"} : Get(w, h, ReqC)

CallNow == \E w \in Workers : Now(w)

CallSet == \E w \in Workers : Set(w)

TickRace == Tick(Instants)

Next == CallGet \/ CallNow \/ CallSet \/ TickRace

Spec == InitRace /\ [][Next]_vars

\* SpecKeys: two handlers with different scopes, two callers, atomic calls
ScopeAB == <<"a", "_", "b">>

ReqBC == Request(AnonymousUser, <<"b", "_", "c">>, None)

InitKeys ==
  /\ InitCommon
  /\ engine \in {[h \in {"h1", "h2"} |->
                    IF h = "h1" THEN Throttling(1, d, ScopeAB) ELSE Throttling(1, d, ScopeA)] :
                   d \in 1 .. MaxW}

CallKeys ==
  /\ Len(log) < MaxKeyCalls
  /\ \E w \in Workers, h \in {"h1", "h2"}, r \in {ReqC, ReqBC} : AllowRequest(w, h, r)

TickKeys == Tick(Instants)

NextKeys == CallKeys \/ TickKeys

SpecKeys == InitKeys /\ [][NextKeys]_vars

\* SpecIdent: get_ident applied to every request metadata of the bounded sets
XffChars == {"1", ",", " ", "\t"}

RECURSIVE StringsUpTo(_, _)
StringsUpTo(chars, n) ==
  IF n = 0 THEN {<<>>}
  ELSE LET shorter == StringsUpTo(chars, n - 1)
       IN shorter \cup {Append(s, c) : s \in shorter, c \in chars}

ScenarioXff ==
  <<" ", "1", ".", "2", ".", "3", ".", "4", " ", ",", " ", "5", ".", "6", ".", "7", ".", "8">>

Headers == {None, ScenarioXff} \cup StringsUpTo(XffChars, MaxLen)

Users == {AnonymousUser, User(TRUE, TRUE, 42), User(TRUE, TRUE, 0), User(TRUE, FALSE, 0)}

RemoteAddrs == {None, <<>>, <<"9">>}

InitIdent ==
  /\ clock = 0
  /\ cache = EmptyCache
  /\ engine = [h \in {"h1"} |-> NoThrottling]
  /\ frame = [w \in Workers |-> IdleFrame]
  /\ log = <<>>
  /\ meta \in {Request(u, x, a) : u \in Users, x \in Headers, a \in RemoteAddrs}
  /\ resolved = <<>>
  /\ rate = <<>>
  /\ parsed = <<>>

Resolve ==
  /\ resolved = <<>>
  /\ resolved' = <<get_ident(meta)>>
  /\ UNCHANGED <<clock, cache, engine, frame, log, meta, rate, parsed>>

NextIdent == Resolve

SpecIdent == InitIdent /\ [][NextIdent]_vars

\* SpecFail: Spec with a cache whose get and set may fail
CallGetFail ==
  /\ Len(log) + Cardinality(Running) < MaxFailCalls
  /\ \E w \in Workers, h \in {"h1", "h2"} : Get(w, h, ReqC)

CallGetFails ==
  /\ Len(log) + Cardinality(Running) < MaxFailCalls
  /\ \E w \in Workers, h \in {"h1", "h2"} : GetFails(w, h, ReqC)

CallSetFails == \E w \in Workers : SetFails(w)

NextFail == CallGetFail \/ CallGetFails \/ CallNow \/ CallSet \/ CallSetFails \/ TickRace

SpecFail == InitRace /\ [][NextFail]_vars

\* SpecShared: two handlers declared with the same scope, each with its own
\* rate string ('<n>/s' or '<n>/m', the tick is one second), atomic calls
FullName(h) == <<"C", ".">> \o <<h>>

RateString(n, unit) == Digits(n) \o <<"/", unit>>

SharedRates == {RateString(n, u) : n \in 1 .. MaxN, u \in {"s", "m"}}

SharedInstants == (0 .. MaxTime) \cup {60, 61}

InitShared ==
  /\ InitCommon
  /\ engine \in {[h \in {"h1", "h2"} |->
                    create_throttle_class(
                      ThrottlingAnnotation(IF h = "h1" THEN r1 ELSE r2, ScopeA), FullName(h))] :
                   r1 \in SharedRates, r2 \in SharedRates}

CallShared ==
  /\ Len(log) < MaxSharedCalls
  /\ \E w \in Workers, h \in {"h1", "h2"} : AllowRequest(w, h, ReqC)

TickShared == Tick(SharedInstants)

NextShared == CallShared \/ TickShared

SpecShared == InitShared /\ [][NextShared]_vars

\* SpecZero: one handler whose rate string has a count that parses as 0, with
\* its default scope; three callers; atomic calls
ZeroRates ==
  {<<"0", "/", "s">>, <<"0", "/", "m">>, <<"0", "0", "/", "h">>, <<"-", "0", "/", "d">>}

ReqUser == Request(User(TRUE, TRUE, 42), None, <<"c">>)

InitZero ==
  /\ clock = 0
  /\ cache = EmptyCache
  /\ frame = [w \in Workers |-> IdleFrame]
  /\ log = <<>>
  /\ meta = NoMeta
  /\ resolved = <<>>
  /\ rate \in ZeroRates
  /\ parsed = <<>>
  /\ engine = [h \in {"h1"} |->
                 create_throttle_class(ThrottlingAnnotation(rate, None), FullName(h))]

CallZero ==
  /\ Len(log) < MaxZeroCalls
  /\ \E w \in Workers, r \in {ReqC, ReqBC, ReqUser} : AllowRequest(w, "h1", r)

TickZero == Tick(SharedInstants)

NextZero == CallZero \/ TickZero

SpecZero == InitZero /\ [][NextZero]_vars

\* SpecParse: _parse_rate applied to every rate string of the bounded sets
RateChars == {"0", "5", "/", "s", "x", "-"}

RateStrings ==
  StringsUpTo(RateChars, MaxRateLen)
    \cup {<<"5", "/", "s", "e", "c">>, <<"1", "0", "/", "x">>, <<"1", "0", "0", "/", "h">>,
          <<"5", "/", "m">>, <<"5", "/", "d">>, <<" ", "5", "/", "s">>}

InitParse ==
  /\ clock = 0
  /\ cache = EmptyCache
  /\ engine = [h \in {"h1"} |-> NoThrottling]
  /\ frame = [w \in Workers |-> IdleFrame]
  /\ log = <<>>
  /\ meta = NoMeta
  /\ resolved = <<>>
  /\ rate \in RateStrings
  /\ parsed = <<>>

Parse ==
  /\ parsed = <<>>
  /\ parsed' = <<_parse_rate(rate)>>
  /\ UNCHANGED <<clock, cache, engine, frame, log, meta, resolved, rate>>

NextParse == Parse

SpecParse == InitParse /\ [][NextParse]_vars

\* ------------------------------------------------ properties, SpecAtomic
Calls == 1 .. Len(log)

Limit(i) == engine[log[i].h].num_requests

Window(i) == engine[log[i].h].duration

\* the number of calls on log[i]'s key completed from call i up to, not
\* including, call j
CallsBetween(i, j) ==
  Cardinality({m \in i .. (j - 1) : log[m].throttled /\ log[m].key = log[i].key})

Times == [i \in Calls |-> log[i].now]

Results == [i \in Calls |-> log[i].allowed]

\* C1: on a key absent from the store, of the calls made less than one
\* window after the first, exactly the first limitCount are admitted and every
\* later one (the (n+1)-th in particular) is rejected; with '5/s' and a tick of
\* 0.01 s the calls at 0.00 .. 0.04 are admitted, the call at 0.05 is rejected
\* and the call at 1.01 is admitted.
C1_FirstNAdmitted ==
  /\ \A i \in Calls : \A j \in i .. Len(log) :
       ( /\ log[i].throttled /\ log[i].absent /\ Limit(i) >= 1
         /\ log[j].throttled /\ log[j].key = log[i].key
         /\ log[j].now - log[i].now < Window(i) )
       => (log[j].allowed <=> CallsBetween(i, j) < Limit(i))
  /\ (engine["h1"] = ScenarioRate /\ Times = <<0, 1, 2, 3, 4, 5, 101>>)
       => Results = <<TRUE, TRUE, TRUE, TRUE, TRUE, FALSE, TRUE>>

\* the (n+1)-th call of a span on a fresh key has been rejected
SpanOverrun ==
  \E i \in Calls : \E j \in i .. Len(log) :
    /\ log[i].absent /\ Limit(i) >= 1
    /\ log[j].now - log[i].now < Window(i)
    /\ CallsBetween(i, j) = Limit(i)
    /\ ~log[j].allowed

\* the scenario has run to its last call
C1_Witness ==
  /\ SpanOverrun
  /\ engine["h1"] = ScenarioRate
  /\ Times = <<0, 1, 2, 3, 4, 5, 101>>
  /\ Results = <<TRUE, TRUE, TRUE, TRUE, TRUE, FALSE, TRUE>>

\* the admitted calls on key k with a timestamp in (t - w, t]
AdmittedIn(k, t, w) ==
  {i \in Calls : /\ log[i].throttled /\ log[i].key = k /\ log[i].allowed
                 /\ t - w < log[i].now /\ log[i].now <= t}

\* C2: when every call is one atomic step, at every time t at most limitCount
\* admitted calls of a key have their timestamp in (t - windowSeconds, t].
C2_AtMostNInWindow ==
  \A i \in Calls : \A t \in {u \in AtomicInstants : u <= clock} :
    (log[i].throttled /\ Limit(i) >= 1)
      => Cardinality(AdmittedIn(log[i].key, t, Window(i))) <= Limit(i)

\* a window is full and a further call inside it was turned away
C2_Witness ==
  \E i \in Calls :
    /\ log[i].throttled /\ Limit(i) >= 1 /\ ~log[i].allowed
    /\ Cardinality(AdmittedIn(log[i].key, log[i].now, Window(i))) = Limit(i)

Elems(s) == {s[x] : x \in 1 .. Len(s)}

Oldest(s) == CHOOSE t \in Elems(s) : \A u \in Elems(s) : t <= u

\* C5: with limitCount >= 1, a call that finds a non-empty stored history
\* whose oldest timestamp is more than windowSeconds old returns True.
C5_SlidesWithoutReset ==
  \A i \in Calls :
    ( /\ log[i].throttled /\ Limit(i) >= 1
      /\ log[i].read # <<>>
      /\ log[i].now > Oldest(log[i].read) + Window(i) )
    => log[i].allowed

\* the stored history was full, only its oldest entry had left the window
C5_Witness ==
  \E i \in Calls :
    /\ log[i].throttled /\ Limit(i) >= 2
    /\ Len(log[i].read) = Limit(i)
    /\ log[i].now > Oldest(log[i].read) + Window(i)
    /\ log[i].now < log[i].read[1] + Window(i)
    /\ log[i].allowed

\* the pruned history of a completed call (without the prepended now)
Kept(i) == IF log[i].allowed THEN Tail(log[i].history) ELSE log[i].history

InWindowPositions(i) ==
  {x \in 1 .. Len(log[i].read) : log[i].read[x] > log[i].now - Window(i)}

\* C6: a stored timestamp t = now - windowSeconds is pruned and does not
\* count; a stored timestamp t > now - windowSeconds (t = now included) is
\* kept and counts toward the limit.
C6_RightOpenWindow ==
  \A i \in Calls : log[i].throttled =>
    /\ \A x \in 1 .. Len(log[i].read) :
         LET t == log[i].read[x] IN
           /\ (t = log[i].now - Window(i)) => t \notin Elems(Kept(i))
           /\ (t > log[i].now - Window(i)) => t \in Elems(Kept(i))
    /\ log[i].allowed <=> Cardinality(InWindowPositions(i)) < Limit(i)

\* a full history whose oldest entry sits exactly on the boundary: admitted,
\* and a call that finds an entry stamped now itself: it counts
C6_Witness ==
  /\ \E i \in Calls :
       /\ log[i].throttled /\ Limit(i) >= 1 /\ Len(log[i].read) = Limit(i)
       /\ log[i].read[Len(log[i].read)] = log[i].now - Window(i)
       /\ log[i].allowed
  /\ \E i \in Calls :
       /\ log[i].throttled /\ Limit(i) >= 1 /\ ~log[i].allowed
       /\ log[i].now \in Elems(log[i].read)

\* ------------------------------------------------------ properties, Spec
StoredHistory(k) == IF k \in DOMAIN cache THEN cache[k].value ELSE <<>>

\* the positions of the stored history of k with a timestamp in (t - w, t]
StoredIn(k, t, w) ==
  {x \in 1 .. Len(StoredHistory(k)) :
     t - w < StoredHistory(k)[x] /\ StoredHistory(k)[x] <= t}

OverAdmitted(k, t, n, w) == Cardinality(AdmittedIn(k, t, w)) > n

\* C3: with separate get and set, more than limitCount calls can be admitted
\* within one window; whenever that has happened, the stored history holds
\* fewer timestamps of that window than calls were admitted in it (an admitted
\* timestamp was lost).
C3_OverAdmissionLosesUpdate ==
  \A i \in Calls : \A t \in {u \in Instants : u <= clock} :
    (log[i].throttled /\ Limit(i) >= 1 /\ OverAdmitted(log[i].key, t, Limit(i), Window(i)))
      => Cardinality(StoredIn(log[i].key, t, Window(i)))
           < Cardinality(AdmittedIn(log[i].key, t, Window(i)))

\* two calls read the same history with one slot left, both were admitted, and
\* the timestamp of the first is not in the stored history
C3_Witness ==
  \E i \in Calls : \E j \in Calls :
    /\ i < j /\ log[i].key = log[j].key
    /\ log[i].allowed /\ log[j].allowed
    /\ log[i].read = log[j].read
    /\ Len(log[j].history) = Limit(j)
    /\ log[i].now # log[j].now
    /\ OverAdmitted(log[j].key, log[j].now, Limit(j), Window(j))
    /\ log[i].now \notin Elems(StoredHistory(log[i].key))

Completes == Len(log') = Len(log) + 1

Last == log'[Len(log')]

\* C7: no step of a rejected call writes the cache; an admitted call performs
\* one set, of its key only, whose expiry is the write time + windowSeconds.
C7_Step ==
  /\ (cache' # cache) => (Completes /\ Last.throttled /\ Last.allowed)
  /\ (Completes /\ Last.throttled /\ ~Last.allowed) => (Last.sets = 0 /\ cache' = cache)
  /\ (Completes /\ Last.throttled /\ Last.allowed) =>
       /\ Last.sets = 1
       /\ DOMAIN cache' = DOMAIN cache \cup {Last.key}
       /\ cache'[Last.key] =
            [value |-> Last.history, expires |-> clock + engine[Last.h].duration]
       /\ \A k \in DOMAIN cache : k # Last.key => cache'[k] = cache[k]

C7_WritesOnlyOnAdmit == [][C7_Step]_vars

\* a call was rejected while the key was live and left its entry as the last
\* admitted call, made earlier, had written it
C7_Witness ==
  \E i \in Calls : \E j \in Calls :
    /\ i < j /\ j = Len(log)
    /\ log[i].allowed /\ log[i].sets = 1
    /\ ~log[j].allowed /\ log[j].throttled /\ log[j].key = log[i].key
    /\ log[j].now > log[i].now
    /\ cache[log[i].key].value = log[i].history
    /\ cache[log[i].key].expires > clock

\* C8: a call through an engine whose throttling_ is None returns True and
\* performs no cache get and no cache set, whatever the cache holds.
C8_Step ==
  (Completes /\ engine[Last.h].is_none) =>
     /\ Last.allowed /\ Last.gets = 0 /\ Last.sets = 0
     /\ cache' = cache /\ frame' = frame

C8_NoConfigAlwaysAdmits == [][C8_Step]_vars

\* an unthrottled call returned while the throttled handler's key was full
C8_Witness ==
  \E i \in Calls : \E j \in Calls :
    /\ i < j
    /\ log[i].throttled /\ ~log[i].allowed
    /\ engine[log[j].h].is_none /\ log[j].allowed
    /\ CacheHas(cache, log[i].key, clock)

\* -------------------------------------------------- properties, SpecKeys
Pair(i) == <<log[i].scope, log[i].ident>>

\* C4: two different (scope, identity) pairs have different store keys, and
\* the history a call reads holds only timestamps of admitted calls made under
\* its own pair.
C4_PairsIndependent ==
  /\ \A i \in Calls : \A j \in Calls : Pair(i) # Pair(j) => log[i].key # log[j].key
  /\ \A j \in Calls : \A x \in 1 .. Len(log[j].read) :
       \E i \in 1 .. (j - 1) :
         Pair(i) = Pair(j) /\ log[i].allowed /\ log[i].now = log[j].read[x]

\* ------------------------------------------------- properties, SpecIdent
IsDone == resolved # <<>>

Ident == resolved[1]

DigitValue(c) == CHOOSE d \in 0 .. 9 : DigitChars[d + 1] = c

RECURSIVE DecimalValue(_)
DecimalValue(s) ==
  IF Len(s) = 1 THEN DigitValue(s[1])
  ELSE 10 * DecimalValue(SubSeq(s, 1, Len(s) - 1)) + DigitValue(s[Len(s)])

IsDecimalOf(s, n) ==
  /\ s # None /\ Len(s) >= 1
  /\ \A x \in 1 .. Len(s) : \E d \in 0 .. 9 : DigitChars[d + 1] = s[x]
  /\ (Len(s) > 1 => s[1] # "0")
  /\ DecimalValue(s) = n

NotWhitespace(c) == c \notin Whitespace

HasPrincipal == meta.user.is_authenticated /\ meta.user.has_pk

\* C9 as claimed: principal id first; else the forwarded-for header, whenever
\* it is present, with its whitespace removed; else the remote address.
C9_HeaderWheneverPresent ==
  IsDone =>
    IF HasPrincipal THEN IsDecimalOf(Ident, meta.user.pk)
    ELSE IF meta.xff # None THEN Ident = SelectSeq(meta.xff, NotWhitespace)
    ELSE Ident = meta.remote_addr

\* C9: principal id first; else the forwarded-for header, when it is present
\* and not empty, with every whitespace character removed and nothing else
\* changed; else (header absent or empty) the remote address.
C9_IdentOrder ==
  IsDone =>
    IF HasPrincipal THEN IsDecimalOf(Ident, meta.user.pk)
    ELSE IF meta.xff # None /\ meta.xff # <<>>
         THEN Ident = SelectSeq(meta.xff, NotWhitespace)
    ELSE Ident = meta.remote_addr

\* the header of the scenario, resolved for an anonymous caller
C9_Witness ==
  /\ IsDone /\ ~HasPrincipal /\ meta.xff = ScenarioXff
  /\ Ident = <<"1", ".", "2", ".", "3", ".", "4", ",", "5", ".", "6", ".", "7", ".", "8">>

\* C10: the identity is always a non-empty string, and it is "unknown" when
\* there is no principal, no forwarded-for value and no remote address.
C10_NonEmptyIdentity ==
  IsDone =>
    /\ Ident # None /\ Ident # <<>>
    /\ (~HasPrincipal /\ ~Truthy(meta.xff) /\ ~Truthy(meta.remote_addr))
         => Ident = <<"u", "n", "k", "n", "o", "w", "n">>

\* ------------------------------------------------- properties, SpecParse
IsParsed == parsed # <<>>

Outcome == parsed[1]

\* the rate strings <positive integer>/<unit char>: ASCII digits with a
\* non-zero value, one slash, one of s, m, h, d
WellFormedRate(r) ==
  \E x \in 1 .. Len(r) :
    /\ x > 1 /\ x + 1 = Len(r)
    /\ r[x] = "/"
    /\ r[Len(r)] \in {"s", "m", "h", "d"}
    /\ \A y \in 1 .. (x - 1) : IsDigit(r[y])
    /\ \E y \in 1 .. (x - 1) : r[y] # "0"

CountOf(r) == DecimalValue(SubSeq(r, 1, Len(r) - 2))

SecondsOf(c) == CASE c = "s" -> 1 [] c = "m" -> 60 [] c = "h" -> 3600 [] c = "d" -> 86400

\* C11: _parse_rate returns (n, seconds of the unit) for every string
\* <positive integer>/<unit char> and fails (with whatever exception stands for
\* InvalidRateFormat) for every other string.
C11_ParseRejectsMalformed ==
  IsParsed =>
    IF WellFormedRate(rate)
    THEN Outcome = Return(CountOf(rate), SecondsOf(rate[Len(rate)]))
    ELSE Outcome.error # ""

\* ------------------------------------------------ properties, SpecShared
\* the calls of log[j]'s identity admitted before call j, through either
\* handler, with a timestamp in log[j]'s trailing window
AdmittedBefore(j) ==
  {i \in 1 .. (j - 1) :
     /\ log[i].ident = log[j].ident /\ log[i].allowed
     /\ log[i].now > log[j].now - Window(j)}

SharedBudget(j) == log[j].allowed => Cardinality(AdmittedBefore(j)) < Limit(j)

SameRates ==
  /\ engine["h1"].num_requests = engine["h2"].num_requests
  /\ engine["h1"].duration = engine["h2"].duration

C13_Step ==
  (Completes /\ Last.failed # "") =>
    /\ Last.raised = "StoreUnavailable"
    /\ (Last.failed = "get") => (cache' = cache /\ Last.sets = 0 /\ frame' = frame)

C13_StoreFailurePropagates ==
  /\ [][C13_Step]_vars
  /\ [](\A i \in Calls : log[i].raised = "" => log[i].failed = "")

\* a get failed while the key was full, and a set failed after the call had
\* decided to admit
C13_Witness ==
  /\ \E i \in Calls : \E j \in Calls :
       /\ i < j /\ log[i].raised = "" /\ log[i].throttled /\ ~log[i].allowed
       /\ log[j].failed = "get" /\ log[j].raised # ""
       /\ CacheHas(cache, log[i].key, clock)
  /\ \E i \in Calls : log[i].failed = "set" /\ log[i].raised # ""

\* ------------------------------------------ more properties, SpecAtomic
LastAdmitted(i) ==
  /\ log[i].throttled /\ log[i].allowed
  /\ \A j \in (i + 1) .. Len(log) : log[j].key = log[i].key => ~log[j].allowed

\* C14: from windowSeconds after the write of the last admitted call of a key
\* on, the key is absent from the store, whatever rejected calls came after
\* that write; nothing deletes it.
C14_KeySelfExpires ==
  \A i \in Calls :
    (LastAdmitted(i) /\ clock >= log[i].now + Window(i))
      => /\ ~CacheHas(cache, log[i].key, clock)
         /\ CacheGet(cache, log[i].key, clock) = <<>>
         /\ log[i].key \in DOMAIN cache

\* the key has expired on time although a call was rejected after its last write
C14_Witness ==
  \E i \in Calls : \E j \in Calls :
    /\ LastAdmitted(i) /\ i < j
    /\ log[j].key = log[i].key /\ ~log[j].allowed
    /\ log[j].now > log[i].now
    /\ clock = log[i].now + Window(i)
    /\ ~CacheHas(cache, log[i].key, clock)

\* ------------------------------------------------ more properties, Spec
NewestFirst(s) == \A x \in 1 .. (Len(s) - 1) : s[x] >= s[x + 1]

\* C15: under every interleaving each stored history is ordered newest-first.
C15_StoredNewestFirst == \A k \in DOMAIN cache : NewestFirst(cache[k].value)

\* two different timestamps are stored while a worker that read the clock
\* before the newest of them is about to write
C15_Witness ==
  \E k \in DOMAIN cache : \E w \in Workers :
    /\ Len(cache[k].value) >= 2
    /\ cache[k].value[1] > cache[k].value[2]
    /\ frame[w].pc = "set" /\ frame[w].key = k
    /\ frame[w].now < cache[k].value[1]

\* the timestamps of s inside the window of call i, in the order of s
InWindowOf(i, s) ==
  LET Live(t) == t > log[i].now - Window(i) IN SelectSeq(s, Live)

\* C16: after the pruning loop the history holds exactly the read timestamps
\* t > now - windowSeconds, in their order.
C16_PruneRemovesExactlyExpired ==
  \A i \in Calls :
    (log[i].throttled /\ log[i].raised = "") => Kept(i) = InWindowOf(i, log[i].read)

\* a call read a history with an expired and a live timestamp
C16_Witness ==
  \E i \in Calls :
    /\ log[i].throttled
    /\ Len(Kept(i)) >= 1
    /\ Len(Kept(i)) < Len(log[i].read)

StoredAfter(k) == IF k \in DOMAIN cache' THEN cache'[k].value ELSE <<>>

Rejects == Completes /\ Last.throttled /\ Last.raised = "" /\ ~Last.allowed

\* C17 as claimed: when a call is rejected, the store holds for its key the
\* pruned history the call computed.
C17_Step_Original == Rejects => StoredAfter(Last.key) = Last.history

C17_StoreHoldsPruned == [][C17_Step_Original]_vars

\* C17: when a call is rejected and no other call has written the key since
\* the call read it, the store holds for its key the pruned history the call
\* computed, and that history has no timestamp t <= now - windowSeconds.
C17_Step ==
  (Rejects /\ StoredHistory(Last.key) = Last.read) =>
    /\ StoredAfter(Last.key) = Last.history
    /\ \A t \in Elems(Last.history) : t > Last.now - engine[Last.h].duration

C17_StoreHoldsPrunedUnlessRaced == [][C17_Step]_vars

\* a call was rejected at a later instant than the one its key was written at,
\* the key being untouched in between
C17_Witness ==
  /\ Len(log) >= 1
  /\ LET e == log[Len(log)] IN
       /\ e.throttled /\ ~e.allowed /\ engine[e.h].num_requests >= 1
       /\ StoredHistory(e.key) = e.read
       /\ e.now > e.read[1]

\* -------------------------------------------------- properties, SpecZero
\* C18: a rate string whose count parses as 0 is accepted when the engine is
\* built, and then every call, of every identity at every time, returns False
\* and the store is never written.
C18_ZeroRateAlwaysRejects ==
  /\ engine["h1"] = Throttling(0, SecondsOf(rate[Len(rate)]), FullName("h1"))
  /\ \A i \in Calls : ~log[i].allowed /\ log[i].sets = 0
  /\ cache = EmptyCache

\* three callers have been turned away, the last one a window after the first
C18_Witness ==
  /\ Len(log) = 3
  /\ Cardinality({log[i].ident : i \in Calls}) = 3
  /\ \A i \in Calls : ~log[i].allowed
  /\ log[3].now >= log[1].now + engine["h1"].duration

\* ------------------------------------------------ more properties, Spec
\* C19: under every interleaving a stored history of a key used with one
\* configuration with limitCount n >= 1 has at most n entries.
C19_StoredAtMostN ==
  \A k \in DOMAIN cache :
    engine["h1"].num_requests >= 1 => Len(cache[k].value) <= engine["h1"].num_requests

\* a race has admitted more than n calls inside one window and the store holds n
C19_Witness ==
  \E k \in DOMAIN cache :
    /\ engine["h1"].num_requests >= 1
    /\ Len(cache[k].value) = engine["h1"].num_requests
    /\ OverAdmitted(k, clock, engine["h1"].num_requests, engine["h1"].duration)

\* ------------------------------------------ more properties, SpecAtomic
\* the results of the calls i .. Len(log), made at the logged times through the
\* same engine over a store that never expires a key and holds history s
RECURSIVE NoExpiryResults(_, _)
NoExpiryResults(i, s) ==
  IF i > Len(log) THEN <<>>
  ELSE LET pruned == Prune(s, log[i].now, Window(i))
           allowed == ~OverLimit(pruned, Limit(i))
       IN <<allowed>> \o NoExpiryResults(i + 1, IF allowed THEN <<log[i].now>> \o pruned ELSE s)

\* C20: a key that has expired holds only timestamps t <= now - windowSeconds,
\* and the results of every call sequence are those of the same engine over a
\* store that never expires keys.
C20_ExpiryLosesNothing ==
  /\ \A k \in DOMAIN cache :
       clock >= cache[k].expires =>
         \A t \in Elems(cache[k].value) : t <= clock - engine["h1"].duration
  /\ Results = NoExpiryResults(1, <<>>)

\* a call found its key expired and was admitted, a later one was rejected
C20_Witness ==
  \E i \in Calls : \E j \in Calls :
    /\ 1 < i /\ i < j
    /\ log[i].absent /\ log[i].allowed /\ log[1].allowed
    /\ ~log[j].allowed

====
